---- MODULE Spec2Model ----
(***************************************************************************)
(* A model of the maxit agents package: the 10-K item summary pipeline     *)
(* (data_fetch_tools.get_latest_10K_item_summary), the financial statement *)
(* reshaper (core_utils.reshape_financial_df), the peer comparison         *)
(* (workflows.run_peer_comparison), the schemas module and                  *)
(* data_fetch_tools.get_financial_statement.                                *)
(*                                                                         *)
(* Text is a sequence of tokens: a whitespace token stands for one          *)
(* whitespace character, any other token for a run of text that neither     *)
(* starts nor ends with whitespace.  External collaborators (the language   *)
(* model, the filing accessor) answer nondeterministically.                 *)
(***************************************************************************)
EXTENDS Naturals, Sequences, FiniteSets, Bags, TLC

VARIABLES
    \* ---- get_latest_10K_item_summary -----------------------------------
    pc,            \* position in get_latest_10K_item_summary
    user_query,    \* argument
    ticker,        \* argument
    item_codes,    \* argument, then the working list: None or Some(list)
    calls,         \* the external calls made so far, in order
    i,             \* index of the for loop over item_codes
    title,         \* local of the loop body
    item_txt,      \* local of the loop body
    filing_text,   \* local: the text being assembled
    result,        \* the returned text (meaningful when pc = "returned")
    error,         \* the raised error (meaningful when pc = "raised")
    \* ---- reshape_financial_df ------------------------------------------
    df,            \* the wide table given to reshape_financial_df
    sorted_df,     \* the long table it returned
    rpc,           \* "idle", "input" or "done"
    \* ---- run_peer_comparison -------------------------------------------
    ppc,           \* position in run_peer_comparison
    tickers,       \* argument
    data,          \* local: gather_peer_data's dict, as its items in key order
    prompt,        \* local: the prompt, line by line
    llm_calls,     \* the llm.invoke calls made so far
    response,      \* the returned response (meaningful when ppc = "returned")
    \* ---- the schemas module --------------------------------------------
    spc,           \* the statement of schemas.py to execute next, then "loaded"
    module_ns,     \* the class the module's name FilingItemSummary is bound to
    item_type,     \* the class FilingSummary.filingitemsummaries holds
    made,          \* the last construction: the name called, its arguments, the outcome
    \* ---- get_financial_statement ---------------------------------------
    fpc,           \* position in get_financial_statement
    fargs,         \* arguments: ticker, form_type, statement_type, n
    filings,       \* local
    fcalls,        \* the side-effecting calls made so far, in order
    fout,          \* what the call returned or raised
    \* ---- get_ticker_given_name and get_cik ------------------------------
    entry,         \* the function called: "get_ticker_given_name" or "get_cik"
    company_name,  \* argument
    tpc,           \* position in get_ticker_given_name
    res,           \* local: the response of requests.get
    tout,          \* the dict get_ticker_given_name returned (when tpc = "returned")
    cpc,           \* position in get_cik
    ccalls,        \* the side-effecting calls get_cik made so far
    cout           \* what get_cik returned or raised

summaryVars == <<pc, user_query, ticker, item_codes, calls, i, title, item_txt,
                 filing_text, result, error>>
reshapeVars == <<df, sorted_df, rpc>>
peerVars == <<ppc, tickers, data, prompt, llm_calls, response>>
schemaVars == <<spc, module_ns, item_type, made>>
statementVars == <<fpc, fargs, filings, fcalls, fout>>
lookupVars == <<entry, company_name, tpc, res, tout, cpc, ccalls, cout>>
notSummary == <<reshapeVars, peerVars, schemaVars, statementVars, lookupVars>>
notReshape == <<summaryVars, peerVars, schemaVars, statementVars, lookupVars>>
notPeer == <<summaryVars, reshapeVars, schemaVars, statementVars, lookupVars>>
notSchema == <<summaryVars, reshapeVars, peerVars, statementVars, lookupVars>>
notStatement == <<summaryVars, reshapeVars, peerVars, schemaVars, lookupVars>>
notLookup == <<summaryVars, reshapeVars, peerVars, schemaVars, statementVars>>

\* ---------------------------------------------------------------- bounds
MaxCodes == 2      \* longest item_codes list (given or inferred)
MaxRows == 2       \* most rows of a wide table
MaxTickers == 3    \* longest list of tickers to compare
MaxSummaries == 2  \* longest filingitemsummaries list given to FilingSummary
MaxQuotes == 2     \* most quotes in a search response

\* ------------------------------------------------------------- helpers
None == [some |-> FALSE]
Some(v) == [some |-> TRUE, val |-> v]

InList(x, seq) == \E k \in 1..Len(seq) : seq[k] = x

SeqsUpTo(S, n) == UNION {[1..k -> S] : k \in 0..n}

RECURSIVE Flatten(_)
Flatten(ss) == IF ss = <<>> THEN <<>> ELSE Head(ss) \o Flatten(Tail(ss))

\* ------------------------------------------------------ the item catalog
\* TenK.structure.structure of the filing library: parts, each a mapping from
\* item code to its metadata.  Three of its items stand for all of them.
TenKStructure ==
    << [part |-> "PART I",
        items |-> << [code |-> "ITEM 1",  Title |-> "Business"],
                     [code |-> "ITEM 1A", Title |-> "Risk Factors"] >>],
       [part |-> "PART II",
        items |-> << [code |-> "ITEM 7A", Title |-> "Market Risk"] >>] >>

AllItemMeta == Flatten([p \in 1..Len(TenKStructure) |-> TenKStructure[p].items])

\* schemas.get_tenk_items: the keys of every part, in order.
get_tenk_items == [k \in 1..Len(AllItemMeta) |-> AllItemMeta[k].code]

\* The strings a caller or the language model may give as an item code:
\* catalog members, a lower-case spelling of one, and an unknown one.
Identifiers == {"ITEM 1", "ITEM 1A", "ITEM 7A", "item 1a", "ITEM 99"}

\* str.upper on the identifiers
Upper(s) == IF s = "item 1a" THEN "ITEM 1A" ELSE s

\* tenk.structure.get_item(item_code): the filing library upper-cases the code
\* and returns the item's metadata, or Python's None when no part has it.
NoItem == [code |-> "None", Title |-> "None"]
FilingStructureGetItem(code) ==
    IF \E k \in 1..Len(AllItemMeta) : AllItemMeta[k].code = Upper(code)
    THEN AllItemMeta[CHOOSE k \in 1..Len(AllItemMeta) : AllItemMeta[k].code = Upper(code)]
    ELSE NoItem

\* ------------------------------------------------------------------ text
NL == [k |-> "ws", c |-> "\n"]
SP == [k |-> "ws", c |-> " "]
IsWs(t) == t.k = "ws"
FilingLine(date) == [k |-> "filing", date |-> date]        \* --- Filing: <date> ---
SummaryHeader(code, ttl) == [k |-> "header", code |-> code, title |-> ttl]
                                                           \* === Summary of <code>: <title> ===
Txt(s) == [k |-> "text", s |-> s]

RECURSIVE LStrip(_)
LStrip(t) == IF t # <<>> /\ IsWs(Head(t)) THEN LStrip(Tail(t)) ELSE t
RECURSIVE RStrip(_)
RStrip(t) == IF t # <<>> /\ IsWs(t[Len(t)]) THEN RStrip(SubSeq(t, 1, Len(t) - 1)) ELSE t
\* only the leading whitespace removed
Strip_LeftOnly(t) == LStrip(t)

\* str.strip()
Strip(t) == RStrip(LStrip(t))

\* ----------------------------------------------------- inputs and answers
Queries == {"what are the main risks"}
Tickers == {"MU"}
FilingDates == {"2025-10-03"}
SectionTexts == {"section text", "None"}
\* what the summarizer's language model may answer
Summaries == { <<Txt("S1")>>, <<Txt("S2"), NL>>, <<>> }

NoError == [type |-> "None", invalid_items |-> <<>>]
Raise(type) == [type |-> type, invalid_items |-> <<>>]

\* one external call: the collaborator, its argument and whether it succeeded
Call(op, arg, ok) == [op |-> op, arg |-> arg, ok |-> ok]

\* ------------------------------------------- get_latest_10K_item_summary
SummaryInit ==
    /\ pc = "start"
    /\ user_query \in Queries
    /\ ticker \in Tickers
    /\ item_codes \in {None} \cup {Some(c) : c \in SeqsUpTo(Identifiers, MaxCodes)}
    /\ calls = <<>>
    /\ i = 1
    /\ title = "None"
    /\ item_txt = "None"
    /\ filing_text = <<>>
    /\ result = <<>>
    /\ error = NoError

SummaryIdle ==
    /\ pc = "idle"
    /\ user_query = "None"
    /\ ticker = "None"
    /\ item_codes = None
    /\ calls = <<>>
    /\ i = 1
    /\ title = "None"
    /\ item_txt = "None"
    /\ filing_text = <<>>
    /\ result = <<>>
    /\ error = NoError

\* lines 64-67: item_codes is None, so infer_relevant_items asks the language
\* model; InferredItemCodes accepts any list of strings.
InferItems ==
    /\ pc = "start"
    /\ ~item_codes.some
    /\ \/ \E relevant_items \in SeqsUpTo(Identifiers, MaxCodes) :
             /\ calls' = Append(calls, Call("infer_relevant_items", user_query, TRUE))
             /\ item_codes' = Some(relevant_items)
             /\ pc' = "fetch"
             /\ error' = error
       \/ /\ calls' = Append(calls, Call("infer_relevant_items", user_query, FALSE))
          /\ pc' = "raised"
          /\ error' = Raise("ModelFailure")
          /\ item_codes' = item_codes
    /\ UNCHANGED <<user_query, ticker, i, title, item_txt, filing_text, result>>
    /\ UNCHANGED notSummary

\* a validation that looks at the first code only
InvalidItems_FirstOnly(codes) ==
    SelectSeq(SubSeq(codes, 1, IF Len(codes) > 0 THEN 1 ELSE 0),
              LAMBDA code : ~InList(code, get_tenk_items))

\* line 71
InvalidItems(codes) == SelectSeq(codes, LAMBDA code : ~InList(code, get_tenk_items))

\* lines 68-73: item_codes given, validate them against get_tenk_items()
ValidateItems ==
    /\ pc = "start"
    /\ item_codes.some
    /\ LET invalid_items == InvalidItems(item_codes.val)
       IN  IF invalid_items # <<>>
           THEN /\ pc' = "raised"
                /\ error' = [type |-> "ValueError", invalid_items |-> invalid_items]
           ELSE /\ pc' = "fetch"
                /\ error' = error
    /\ UNCHANGED <<user_query, ticker, item_codes, calls, i, title, item_txt,
                   filing_text, result>>
    /\ UNCHANGED notSummary

\* lines 76-80: get_latest_filings(ticker, "10-K", n=1, as_text=False), filing[0],
\* filing.obj() and the header of the text.  The accessor may raise, or find no
\* filing: ensure_list(None) is [] and filing[0] raises IndexError.
FetchFiling ==
    /\ pc = "fetch"
    /\ \/ \E filing_date \in FilingDates :
             /\ calls' = Append(calls, Call("get_latest_filings", ticker, TRUE))
             /\ filing_text' = <<NL, NL, FilingLine(filing_date), NL>>
             /\ pc' = "item"
             /\ error' = error
       \/ \E e \in {"IndexError", "AccessorFailure"} :
             /\ calls' = Append(calls, Call("get_latest_filings", ticker, FALSE))
             /\ pc' = "raised"
             /\ error' = Raise(e)
             /\ filing_text' = filing_text
    /\ UNCHANGED <<user_query, ticker, item_codes, i, title, item_txt, result>>
    /\ UNCHANGED notSummary

\* the filing fetched again for every item of the loop
LookupItem_RefetchFiling ==
    /\ pc = "item"
    /\ i <= Len(item_codes.val)
    /\ LET item_code == item_codes.val[i]
           tenk_item == FilingStructureGetItem(item_code)
       IN  /\ calls' = calls \o <<Call("get_latest_filings", ticker, TRUE),
                                  Call("get_item", item_code, tenk_item # NoItem)>>
           /\ IF tenk_item = NoItem
              THEN /\ pc' = "raised"
                   /\ error' = Raise("TypeError")
                   /\ title' = title
              ELSE /\ pc' = "text"
                   /\ title' = tenk_item.Title
                   /\ error' = error
    /\ UNCHANGED <<user_query, ticker, item_codes, i, item_txt, filing_text, result>>
    /\ UNCHANGED notSummary

\* lines 81-84: the next item_code of the loop, its metadata from the filing's
\* structure; subscripting None raises TypeError.
LookupItem ==
    /\ pc = "item"
    /\ i <= Len(item_codes.val)
    /\ LET item_code == item_codes.val[i]
           tenk_item == FilingStructureGetItem(item_code)
       IN  /\ calls' = Append(calls, Call("get_item", item_code, tenk_item # NoItem))
           /\ IF tenk_item = NoItem
              THEN /\ pc' = "raised"
                   /\ error' = Raise("TypeError")
                   /\ title' = title
              ELSE /\ pc' = "text"
                   /\ title' = tenk_item.Title
                   /\ error' = error
    /\ UNCHANGED <<user_query, ticker, item_codes, i, item_txt, filing_text, result>>
    /\ UNCHANGED notSummary

\* line 85: item_txt = str(tenk[item_code])
SectionText ==
    /\ pc = "text"
    /\ \/ \E txt \in SectionTexts :
             /\ calls' = Append(calls, Call("section_text", item_codes.val[i], TRUE))
             /\ item_txt' = txt
             /\ pc' = "summarize"
             /\ error' = error
       \/ /\ calls' = Append(calls, Call("section_text", item_codes.val[i], FALSE))
          /\ pc' = "raised"
          /\ error' = Raise("AccessorFailure")
          /\ item_txt' = item_txt
    /\ UNCHANGED <<user_query, ticker, item_codes, i, title, filing_text, result>>
    /\ UNCHANGED notSummary

\* a block that is left out when the summary is empty
SummaryBlock_SkipEmpty(item_code, ttl, summarized_item_text) ==
    IF summarized_item_text = <<>> THEN <<>>
    ELSE <<NL, SP, SummaryHeader(item_code, ttl), NL>> \o summarized_item_text

\* line 88: the block appended for one item
SummaryBlock(item_code, ttl, summarized_item_text) ==
    <<NL, SP, SummaryHeader(item_code, ttl), NL>> \o summarized_item_text

\* a summarizer failure that is swallowed: the loop goes on to the next item
SummarizeItem_Swallow ==
    /\ pc = "summarize"
    /\ \/ \E summarized_item_text \in Summaries :
             /\ calls' = Append(calls, Call("summarize_item_text", item_codes.val[i], TRUE))
             /\ filing_text' = filing_text
                                 \o <<NL, SP, SummaryHeader(item_codes.val[i], title), NL>>
                                 \o summarized_item_text
       \/ /\ calls' = Append(calls, Call("summarize_item_text", item_codes.val[i], FALSE))
          /\ filing_text' = filing_text
    /\ i' = i + 1
    /\ pc' = "item"
    /\ UNCHANGED <<user_query, ticker, item_codes, title, item_txt, result, error>>
    /\ UNCHANGED notSummary

\* lines 87-88: summarize_item_text, one language-model call, and the block
SummarizeItem ==
    /\ pc = "summarize"
    /\ \/ \E summarized_item_text \in Summaries :
             /\ calls' = Append(calls, Call("summarize_item_text", item_codes.val[i], TRUE))
             /\ filing_text' = filing_text
                                 \o SummaryBlock(item_codes.val[i], title, summarized_item_text)
             /\ i' = i + 1
             /\ pc' = "item"
             /\ error' = error
       \/ /\ calls' = Append(calls, Call("summarize_item_text", item_codes.val[i], FALSE))
          /\ pc' = "raised"
          /\ error' = Raise("ModelFailure")
          /\ UNCHANGED <<filing_text, i>>
    /\ UNCHANGED <<user_query, ticker, item_codes, title, item_txt, result>>
    /\ UNCHANGED notSummary

\* a return placed inside the loop body: the text is returned after the first item
ReturnSummary_InsideLoop ==
    /\ pc = "item"
    /\ (i > Len(item_codes.val) \/ i > 1)
    /\ result' = Strip(filing_text)
    /\ pc' = "returned"
    /\ UNCHANGED <<user_query, ticker, item_codes, calls, i, title, item_txt,
                   filing_text, error>>
    /\ UNCHANGED notSummary

\* line 90
ReturnSummary ==
    /\ pc = "item"
    /\ i > Len(item_codes.val)
    /\ result' = Strip(filing_text)
    /\ pc' = "returned"
    /\ UNCHANGED <<user_query, ticker, item_codes, calls, i, title, item_txt,
                   filing_text, error>>
    /\ UNCHANGED notSummary

SummaryNext ==
    \/ InferItems
    \/ ValidateItems
    \/ FetchFiling
    \/ LookupItem
    \/ SectionText
    \/ SummarizeItem
    \/ ReturnSummary

\* ---------------------------------------------------- reshape_financial_df
\* Column names and labels are strings, compared as Python compares strings;
\* each list below is in that (lexicographic) order.  "level" stands for a
\* column of the statement table that is neither an id column nor a date.
ColumnNames == <<"2024-12-31", "2025-03-31", "level">>
LabelNames == <<"Assets", "Revenue">>
Concepts == {"us-gaap:Assets", "us-gaap:Revenue"}

Range(seq) == {seq[k] : k \in 1..Len(seq)}
Rank(x, names) == CHOOSE k \in 1..Len(names) : names[k] = x

\* the value columns of a table: distinct names, in any order
ColumnLists == {c \in SeqsUpTo(Range(ColumnNames), Len(ColumnNames)) :
                   Len(c) > 0 /\ \A a, b \in 1..Len(c) : a # b => c[a] # c[b]}
\* the amounts of one row over P columns
AmountRows(P) == {[c \in 1..P |-> 100], [c \in 1..P |-> 100 + 20 * (c - 1)]}

\* A wide table: df.columns is label, concept (when has_concept) and `columns`.
WideTables(maxRows) ==
    UNION {
      { [has_concept |-> hc, columns |-> cols, rows |-> rows] :
          rows \in SeqsUpTo([label : Range(LabelNames),
                             concept : IF hc THEN Concepts ELSE {"absent"},
                             vals : AmountRows(Len(cols))], maxRows) }
      : hc \in BOOLEAN, cols \in ColumnLists }

\* one row of the long table
LongRow(hc, row, col, amount) ==
    IF hc THEN [label |-> row.label, concept |-> row.concept,
                fiscal_date |-> col, amount |-> amount]
          ELSE [label |-> row.label, fiscal_date |-> col, amount |-> amount]

\* a melt that also drops repeated rows
Melt_DropDuplicates(t) ==
    LET R == Len(t.rows)
        all == [k \in 1..(R * Len(t.columns)) |->
                  LET c == ((k - 1) \div R) + 1
                      r == ((k - 1) % R) + 1
                  IN  LongRow(t.has_concept, t.rows[r], t.columns[c], t.rows[r].vals[c])]
        first == {k \in 1..Len(all) : \A j \in 1..(k - 1) : all[j] # all[k]}
        RECURSIVE Keep(_)
        Keep(k) == IF k > Len(all) THEN <<>>
                   ELSE (IF k \in first THEN <<all[k]>> ELSE <<>>) \o Keep(k + 1)
    IN  Keep(1)

\* lines 113-121: df.melt(id_vars, var_name="fiscal_date", value_name="amount"):
\* the value columns one after the other, each with every row in table order.
Melt(t) ==
    LET R == Len(t.rows)
    IN  [k \in 1..(R * Len(t.columns)) |->
           LET c == ((k - 1) \div R) + 1
               r == ((k - 1) % R) + 1
           IN  LongRow(t.has_concept, t.rows[r], t.columns[c], t.rows[r].vals[c])]

\* (label, fiscal_date) of a is not after that of b
KeyLeq(a, b) ==
    \/ Rank(a.label, LabelNames) < Rank(b.label, LabelNames)
    \/ /\ a.label = b.label
       /\ Rank(a.fiscal_date, ColumnNames) <= Rank(b.fiscal_date, ColumnNames)

\* x put into the sorted rows s behind every row whose key is not after x's
RECURSIVE InsertSorted(_, _)
InsertSorted(x, s) ==
    IF s = <<>> THEN <<x>>
    ELSE IF KeyLeq(Head(s), x) THEN <<Head(s)>> \o InsertSorted(x, Tail(s))
    ELSE <<x>> \o s

\* the long table returned as melted, the sort forgotten
SortValues_Unsorted(rows) == rows

\* line 122: long_df.sort_values(by=["label", "fiscal_date"]), a sort on two keys
\* that keeps rows of equal keys in their order
RECURSIVE SortValues(_)
SortValues(rows) ==
    IF rows = <<>> THEN <<>>
    ELSE InsertSorted(rows[Len(rows)], SortValues(SubSeq(rows, 1, Len(rows) - 1)))

\* lines 111-123
reshape_financial_df(t) == SortValues(Melt(t))

ReshapeIdle ==
    /\ df = None
    /\ sorted_df = None
    /\ rpc = "idle"

ReshapeInit ==
    /\ df \in WideTables(MaxRows)
    /\ sorted_df = None
    /\ rpc = "input"

Reshape ==
    /\ rpc = "input"
    /\ sorted_df' = reshape_financial_df(df)
    /\ rpc' = "done"
    /\ UNCHANGED df
    /\ UNCHANGED notReshape

\* ----------------------------------------------------- run_peer_comparison
PeerTickers == {"MU", "NVDA", "INTC"}

\* what gather_peer_data records for one ticker: the five data fields, an error
\* marker, or the fields gathered so far together with an error
DataSnapshot ==
    [income_statement |-> "IS", balance_sheet |-> "BS", stock_price |-> "PX",
     analyst_rating |-> "AR", earnings |-> "EPS"]
ErrorSnapshot == [error |-> "fetch failed"]
PartialSnapshot ==
    [income_statement |-> "IS", balance_sheet |-> "BS", stock_price |-> "PX",
     analyst_rating |-> "AR", earnings |-> "EPS", error |-> "fetch failed"]
Snapshots == {DataSnapshot, ErrorSnapshot, PartialSnapshot}

\* d[key] = value on a dict kept as its items in insertion order
DictSet(d, key, value) ==
    IF \E k \in 1..Len(d) : d[k].key = key
    THEN [k \in 1..Len(d) |-> IF d[k].key = key THEN [key |-> key, value |-> value]
                              ELSE d[k]]
    ELSE Append(d, [key |-> key, value |-> value])

\* gather_peer_data(tickers): one snapshot per ticker, keyed by ticker
RECURSIVE gather_peer_data(_, _)
gather_peer_data(ts, snaps) ==
    IF ts = <<>> THEN <<>>
    ELSE DictSet(gather_peer_data(SubSeq(ts, 1, Len(ts) - 1), snaps),
                 ts[Len(ts)], snaps[Len(ts)])

\* the lines of the prompt
IntroLine == [k |-> "intro"]          \* Compare the following companies across:
RubricLine == [k |-> "rubric"]        \* - Revenue - Cost Structure ... - Stock and Valuation
RawLine == [k |-> "raw"]              \* Here is the raw data:
SectionLine(t) == [k |-> "section", ticker |-> t]           \* ### <ticker> ###
ErrorLine(e) == [k |-> "error", value |-> e]                \* Error: <error>
FieldLine(name, v) == [k |-> "field", name |-> name, value |-> v]
ClosingLine == [k |-> "closing"]      \* Please provide a concise peer comparison.

\* lines 85-92: the section of one ticker
TickerSection(t, d) ==
    <<SectionLine(t)>> \o
    (IF "error" \in DOMAIN d
     THEN <<ErrorLine(d.error)>>
     ELSE <<FieldLine("Income Statement", d.income_statement),
            FieldLine("Balance Sheet", d.balance_sheet),
            FieldLine("Stock Price", d.stock_price),
            FieldLine("Analyst Rating", d.analyst_rating),
            FieldLine("Earnings", d.earnings)>>)

RECURSIVE TickerSections(_)
TickerSections(peer_data) ==
    IF peer_data = <<>> THEN <<>>
    ELSE TickerSection(Head(peer_data).key, Head(peer_data).value)
           \o TickerSections(Tail(peer_data))

\* a prompt that leaves out the tickers whose snapshot has an error
format_peer_comparison_prompt_SkipErrors(peer_data) ==
    <<IntroLine, RubricLine, RawLine>>
      \o TickerSections(SelectSeq(peer_data, LAMBDA it : ~("error" \in DOMAIN it.value)))
      \o <<ClosingLine>>

\* lines 78-95
format_peer_comparison_prompt(peer_data) ==
    <<IntroLine, RubricLine, RawLine>> \o TickerSections(peer_data) \o <<ClosingLine>>

Responses == {"narrative"}

PeerIdle ==
    /\ ppc = "idle"
    /\ tickers = <<>>
    /\ data = <<>>
    /\ prompt = <<>>
    /\ llm_calls = <<>>
    /\ response = "None"

PeerInit ==
    /\ ppc = "start"
    /\ tickers \in SeqsUpTo(PeerTickers, MaxTickers)
    /\ data = <<>>
    /\ prompt = <<>>
    /\ llm_calls = <<>>
    /\ response = "None"

\* line 27: data = gather_peer_data(tickers)
GatherPeerData ==
    /\ ppc = "start"
    /\ \E snaps \in [1..Len(tickers) -> Snapshots] :
          data' = gather_peer_data(tickers, snaps)
    /\ ppc' = "gathered"
    /\ UNCHANGED <<tickers, prompt, llm_calls, response>>
    /\ UNCHANGED notPeer

\* line 28: prompt = format_peer_comparison_prompt(data)
FormatPrompt ==
    /\ ppc = "gathered"
    /\ prompt' = format_peer_comparison_prompt(data)
    /\ ppc' = "formatted"
    /\ UNCHANGED <<tickers, data, llm_calls, response>>
    /\ UNCHANGED notPeer

\* lines 29-31: one llm.invoke(prompt); its response is returned, its failure raised
InvokeLLM ==
    /\ ppc = "formatted"
    /\ \/ \E r \in Responses :
             /\ llm_calls' = Append(llm_calls, [prompt |-> prompt, ok |-> TRUE, answer |-> r])
             /\ response' = r
             /\ ppc' = "returned"
       \/ /\ llm_calls' = Append(llm_calls, [prompt |-> prompt, ok |-> FALSE, answer |-> "None"])
          /\ response' = response
          /\ ppc' = "raised"
    /\ UNCHANGED <<tickers, data, prompt>>
    /\ UNCHANGED notPeer

\* ------------------------------------------------------- the schemas module
\* The module defines two classes named FilingItemSummary.
ItemSummaryClass == "FilingItemSummary@23"      \* lines 23-35, with validate_item_code
SectionsClass == "FilingItemSummary@82"         \* lines 82-85, no item_code field

\* Keyword arguments of a construction; "absent" marks a keyword not given.
Kwargs ==
    [item_code : Identifiers \cup {"absent"},
     title : {"Risk Factors", "absent"},
     description : {"Risks of the business", "absent"},
     sections : {"[]", "absent"}]

ValidationError(why) == [outcome |-> "ValidationError", why |-> why]

\* lines 30-35: the field validator of item_code
validate_item_code(v) == InList(v, get_tenk_items)

\* Construction of cls(**kw) by the model library: a required field that is
\* missing fails, field validators run, keywords that name no field are ignored.
Construct(cls, kw) ==
    IF cls = ItemSummaryClass
    THEN IF "absent" \in {kw.item_code, kw.title, kw.description}
         THEN ValidationError("missing")
         ELSE IF ~validate_item_code(kw.item_code)
         THEN ValidationError("Invalid item_code")
         ELSE [outcome |-> "instance", class |-> cls,
               fields |-> [item_code |-> kw.item_code, title |-> kw.title,
                           description |-> kw.description]]
    ELSE IF "absent" \in {kw.title, kw.description, kw.sections}
         THEN ValidationError("missing")
         ELSE [outcome |-> "instance", class |-> cls,
               fields |-> [title |-> kw.title, description |-> kw.description,
                           sections |-> kw.sections]]

\* lines 37-41: FilingSummary(..., filingitemsummaries=items): every element is
\* validated as the class the annotation named when FilingSummary was defined
ConstructFilingSummary(cls, items) ==
    IF \E k \in 1..Len(items) : Construct(cls, items[k]).outcome # "instance"
    THEN ValidationError("filingitemsummaries")
    ELSE [outcome |-> "instance", class |-> "FilingSummary",
          fields |-> [filingitemsummaries |->
                        [k \in 1..Len(items) |-> Construct(cls, items[k])]]]

NotMade == [name |-> "None"]

SchemaIdle ==
    /\ spc = "idle"
    /\ module_ns = "unbound"
    /\ item_type = "unbound"
    /\ made = NotMade

\* the import of schemas.py starts
SchemaInit ==
    /\ spc = "line 23"
    /\ module_ns = "unbound"
    /\ item_type = "unbound"
    /\ made = NotMade

\* lines 23-35: class FilingItemSummary (item_code and its validator)
DefineItemSummary ==
    /\ spc = "line 23"
    /\ module_ns' = ItemSummaryClass
    /\ spc' = "line 37"
    /\ UNCHANGED <<item_type, made>>
    /\ UNCHANGED notSchema

\* lines 37-41: class FilingSummary; List[FilingItemSummary] is evaluated now
DefineFilingSummary ==
    /\ spc = "line 37"
    /\ item_type' = module_ns
    /\ spc' = "line 82"
    /\ UNCHANGED <<module_ns, made>>
    /\ UNCHANGED notSchema

\* lines 82-85: class FilingItemSummary again; the module's name is rebound
RedefineItemSummary ==
    /\ spc = "line 82"
    /\ module_ns' = SectionsClass
    /\ spc' = "loaded"
    /\ UNCHANGED <<item_type, made>>
    /\ UNCHANGED notSchema

\* a caller constructs schemas.FilingItemSummary(**kw)
NewFilingItemSummary ==
    /\ spc = "loaded"
    /\ \E kw \in Kwargs :
          made' = [name |-> "FilingItemSummary", kwargs |-> <<kw>>,
                   got |-> Construct(module_ns, kw)]
    /\ spc' = "constructed"
    /\ UNCHANGED <<module_ns, item_type>>
    /\ UNCHANGED notSchema

\* a caller constructs schemas.FilingSummary(..., filingitemsummaries=items)
NewFilingSummary ==
    /\ spc = "loaded"
    /\ \E items \in SeqsUpTo(Kwargs, MaxSummaries) :
          made' = [name |-> "FilingSummary", kwargs |-> items,
                   got |-> ConstructFilingSummary(item_type, items)]
    /\ spc' = "constructed"
    /\ UNCHANGED <<module_ns, item_type>>
    /\ UNCHANGED notSchema

\* -------------------------------------------------- get_financial_statement
StatementTypes == {"cashflow", "balance_sheet", "income"}      \* lines 125-130
StatementArgs ==
    [ticker : {"AAPL", "MSFT"},
     form_type : {"10-K", "10-Q"},
     statement_type : StatementTypes \cup {"equity"},
     n : {1, 2}]

\* what c.get_filings(form=form_type).latest(n) may give: nothing, one filing,
\* or a collection of filings
LatestFilings(n) ==
    {[kind |-> "None", items |-> <<>>]}
      \cup (IF n = 1 THEN {[kind |-> "Filing", items |-> <<"filing 1">>]}
            ELSE {[kind |-> "Filings", items |-> <<"filing 1", "filing 2">>]})

\* core_utils.ensure_list, lines 47-60
ensure_list(item) ==
    IF item.kind = "None" THEN <<>>
    ELSE IF item.kind = "Filing" THEN <<item.items[1]>>
    ELSE item.items

\* the statement tables stmt.to_dataframe() may give
StatementTables == {t \in WideTables(1) : t.has_concept /\ Len(t.rows) = 1}

\* line 136: stmnt_lf[["label", "fiscal_date", "amount"]]
SelectColumns(rows) ==
    [k \in 1..Len(rows) |-> [label |-> rows[k].label,
                             fiscal_date |-> rows[k].fiscal_date,
                             amount |-> rows[k].amount]]

NoOutput == [kind |-> "None"]

StatementIdle ==
    /\ fpc = "idle"
    /\ fargs = [ticker |-> "None"]
    /\ filings = <<>>
    /\ fcalls = <<>>
    /\ fout = NoOutput

StatementInit ==
    /\ fpc = "line 116"
    /\ fargs \in StatementArgs
    /\ filings = <<>>
    /\ fcalls = <<>>
    /\ fout = NoOutput

\* line 116: set_sec_client() sets the SEC identity
SetSecClient ==
    /\ fpc = "line 116"
    /\ fcalls' = Append(fcalls, "set_identity")
    /\ fpc' = "line 118"
    /\ UNCHANGED <<fargs, filings, fout>>
    /\ UNCHANGED notStatement

\* line 118: c = Company(ticker)
LookupCompany ==
    /\ fpc = "line 118"
    /\ fcalls' = Append(fcalls, "Company")
    /\ \/ /\ fpc' = "line 119"
          /\ fout' = fout
       \/ /\ fpc' = "raised"
          /\ fout' = [kind |-> "raised", type |-> "CompanyNotFound"]
    /\ UNCHANGED <<fargs, filings>>
    /\ UNCHANGED notStatement

\* lines 119-120: the latest n filings of the form, as a list
GetFilings ==
    /\ fpc = "line 119"
    /\ fcalls' = Append(fcalls, "get_filings")
    /\ \E latest \in LatestFilings(fargs.n) : filings' = ensure_list(latest)
    /\ fpc' = "line 122"
    /\ UNCHANGED <<fargs, fout>>
    /\ UNCHANGED notStatement

\* line 122: xbs = XBRLS.from_filings(filings)
StitchXBRL ==
    /\ fpc = "line 122"
    /\ fcalls' = Append(fcalls, "XBRLS.from_filings")
    /\ \/ /\ fpc' = "line 125"
          /\ fout' = fout
       \/ /\ fpc' = "raised"
          /\ fout' = [kind |-> "raised", type |-> "XBRLFailure"]
    /\ UNCHANGED <<fargs, filings>>
    /\ UNCHANGED notStatement

\* lines 125-132: the statement of the requested type, or ValueError
SelectStatement ==
    /\ fpc = "line 125"
    /\ IF fargs.statement_type \in StatementTypes
       THEN /\ fpc' = "line 134"
            /\ fout' = fout
       ELSE /\ fpc' = "raised"
            /\ fout' = [kind |-> "raised", type |-> "ValueError"]
    /\ UNCHANGED <<fargs, filings, fcalls>>
    /\ UNCHANGED notStatement

\* lines 134-138: the statement as a table, reshaped, as markdown
RenderStatement ==
    /\ fpc = "line 134"
    /\ \E stmnt \in StatementTables :
          fout' = [kind |-> "returned",
                   rows |-> SelectColumns(reshape_financial_df(stmnt))]
    /\ fpc' = "returned"
    /\ UNCHANGED <<fargs, filings, fcalls>>
    /\ UNCHANGED notStatement

\* ------------------------------------------ get_ticker_given_name, get_cik
CompanyNames == {"Micron Technology"}

\* one quote of the search response; "absent" marks a key the quote lacks
Quotes ==
    [quoteType : {"EQUITY", "ETF"},
     symbol : {"MU", "MUU"},
     shortname : {"Micron Technology, Inc.", "absent"},
     exchange : {"NMS"}]

\* the body of a response: JSON with its quotes, or something that is no JSON
Bodies(maxQuotes) ==
    {[json |-> TRUE, quotes |-> qs] : qs \in SeqsUpTo(Quotes, maxQuotes)}
      \cup {[json |-> FALSE, quotes |-> <<>>]}

ContentTypes == {"application/json", "application/json;charset=utf-8", "text/html", ""}
\* line 24: "application/json" in res.headers.get("Content-Type", "")
IsJsonContentType(ct) == ct \in {"application/json", "application/json;charset=utf-8"}

HttpResponses(maxQuotes) ==
    [kind : {"response"}, status : {200, 404}, content_type : ContentTypes,
     body : Bodies(maxQuotes)]
NoResponse == [kind |-> "none"]

\* the dicts of lines 36-40, 46 and 48
Success(results) == [success |-> TRUE, result |-> Some(results), error |-> None]
Failure(msg) == [success |-> FALSE, error |-> Some(msg), result |-> None]
NoDict == [success |-> "None"]

\* quotes of every type
EquityQuotes_NoFilter(quotes) == quotes

\* line 34: the quotes with q.get("quoteType") == "EQUITY"
EquityQuotes(quotes) == SelectSeq(quotes, LAMBDA q : q.quoteType = "EQUITY")

\* lines 27-35: the list comprehension; q["shortname"] of a quote without that
\* key raises KeyError
ResultsRaiseKeyError(quotes) ==
    \E k \in 1..Len(EquityQuotes(quotes)) : EquityQuotes(quotes)[k].shortname = "absent"
Results(quotes) ==
    [k \in 1..Len(EquityQuotes(quotes)) |->
       [name |-> EquityQuotes(quotes)[k].shortname,
        symbol |-> EquityQuotes(quotes)[k].symbol,
        exchange |-> EquityQuotes(quotes)[k].exchange]]

LookupIdle ==
    /\ entry = "None"
    /\ company_name = "None"
    /\ tpc = "idle"
    /\ res = NoResponse
    /\ tout = NoDict
    /\ cpc = "idle"
    /\ ccalls = <<>>
    /\ cout = NoOutput

LookupInit ==
    /\ entry \in {"get_ticker_given_name", "get_cik"}
    /\ company_name \in CompanyNames
    /\ tpc = IF entry = "get_cik" THEN "idle" ELSE "line 21"
    /\ res = NoResponse
    /\ tout = NoDict
    /\ cpc = IF entry = "get_cik" THEN "line 62" ELSE "idle"
    /\ ccalls = <<>>
    /\ cout = NoOutput

\* line 21: requests.get; a transport failure is a RequestException (lines 45-46)
SendSearch ==
    /\ tpc = "line 21"
    /\ \/ \E r \in HttpResponses(MaxQuotes) :
             /\ res' = r
             /\ tpc' = "line 22"
             /\ tout' = tout
       \/ /\ res' = [kind |-> "failed"]
          /\ tout' = Failure("HTTP error")
          /\ tpc' = "returned"
    /\ UNCHANGED <<entry, company_name, cpc, ccalls, cout>>
    /\ UNCHANGED notLookup

\* line 22: res.raise_for_status(); HTTPError is a RequestException (lines 45-46)
RaiseForStatus ==
    /\ tpc = "line 22"
    /\ IF res.status >= 400
       THEN /\ tout' = Failure("HTTP error")
            /\ tpc' = "returned"
       ELSE /\ tout' = tout
            /\ tpc' = "line 24"
    /\ UNCHANGED <<entry, company_name, res, cpc, ccalls, cout>>
    /\ UNCHANGED notLookup

\* lines 24-48: the content type, res.json(), the comprehension and the return.
\* A body that is no JSON raises a decode error that is a ValueError and, with
\* newer versions of the HTTP library, a RequestException as well.
ParseResponse ==
    /\ tpc = "line 24"
    /\ IF ~IsJsonContentType(res.content_type)
       THEN /\ tout' = Failure("Invalid response")
            /\ tpc' = "returned"
       ELSE IF ~res.body.json
       THEN /\ \E msg \in {"HTTP error", "Invalid response"} : tout' = Failure(msg)
            /\ tpc' = "returned"
       ELSE IF ResultsRaiseKeyError(res.body.quotes)
       THEN /\ tout' = tout
            /\ tpc' = "raised"
       ELSE /\ tout' = Success(Results(res.body.quotes))
            /\ tpc' = "returned"
    /\ UNCHANGED <<entry, company_name, res, cpc, ccalls, cout>>
    /\ UNCHANGED notLookup

\* the CIK numbers Company(ticker).cik may give
Ciks == {1730168, 723125}

RECURSIVE Digits(_)
Digits(n) == IF n < 10 THEN <<n>> ELSE Digits(n \div 10) \o <<n % 10>>
\* f"CIK{int(cik_raw):010d}": the digits, zero-padded on the left to ten
FormatCik(cik_raw) ==
    LET ds == Digits(cik_raw)
    IN  [prefix |-> "CIK",
         digits |-> IF Len(ds) >= 10 THEN ds ELSE [k \in 1..(10 - Len(ds)) |-> 0] \o ds]

\* d[key] on a dict: the keys of d are strings, and "0" stands for the integer 0
HasKey(d, key) == key \in DOMAIN d

\* line 62: set_sec_client(), then line 64 calls get_ticker_given_name(name)
CikSetSecClient ==
    /\ cpc = "line 62"
    /\ ccalls' = Append(ccalls, "set_identity")
    /\ cpc' = "line 64"
    /\ tpc' = "line 21"
    /\ UNCHANGED <<entry, company_name, res, tout, cout>>
    /\ UNCHANGED notLookup

\* lines 64-69, once get_ticker_given_name has ended: an exception of it
\* propagates; otherwise [0] is applied to the dict it returned, then
\* ['symbol'], Company(ticker).cik and the formatting
CikFromTicker ==
    /\ cpc = "line 64"
    /\ tpc \in {"returned", "raised"}
    /\ IF tpc = "raised"
       THEN /\ cout' = [kind |-> "raised", type |-> "KeyError"]
            /\ cpc' = "raised"
            /\ ccalls' = ccalls
       ELSE IF ~HasKey(tout, "0")
       THEN /\ cout' = [kind |-> "raised", type |-> "KeyError"]
            /\ cpc' = "raised"
            /\ ccalls' = ccalls
       ELSE /\ \E cik_raw \in Ciks :
                 cout' = [kind |-> "returned", cik_formatted |-> FormatCik(cik_raw)]
            /\ cpc' = "returned"
            /\ ccalls' = Append(ccalls, "Company")
    /\ UNCHANGED <<entry, company_name, tpc, res, tout>>
    /\ UNCHANGED notLookup

vars == <<summaryVars, reshapeVars, peerVars, schemaVars, statementVars, lookupVars>>

Init == SummaryInit /\ ReshapeIdle /\ PeerIdle /\ SchemaIdle /\ StatementIdle /\ LookupIdle

Next == SummaryNext

Spec == Init /\ [][Next]_vars

InitReshape == SummaryIdle /\ ReshapeInit /\ PeerIdle /\ SchemaIdle /\ StatementIdle /\ LookupIdle

NextReshape == Reshape

SpecReshape == InitReshape /\ [][NextReshape]_vars

InitPeer == SummaryIdle /\ ReshapeIdle /\ PeerInit /\ SchemaIdle /\ StatementIdle /\ LookupIdle

NextPeer ==
    \/ GatherPeerData
    \/ FormatPrompt
    \/ InvokeLLM

SpecPeer == InitPeer /\ [][NextPeer]_vars

InitSchema == SummaryIdle /\ ReshapeIdle /\ PeerIdle /\ SchemaInit /\ StatementIdle /\ LookupIdle

NextSchema ==
    \/ DefineItemSummary
    \/ DefineFilingSummary
    \/ RedefineItemSummary
    \/ NewFilingItemSummary
    \/ NewFilingSummary

SpecSchema == InitSchema /\ [][NextSchema]_vars

InitStatement == SummaryIdle /\ ReshapeIdle /\ PeerIdle /\ SchemaIdle /\ StatementInit /\ LookupIdle

NextStatement ==
    \/ SetSecClient
    \/ LookupCompany
    \/ GetFilings
    \/ StitchXBRL
    \/ SelectStatement
    \/ RenderStatement

SpecStatement == InitStatement /\ [][NextStatement]_vars

InitLookup ==
    SummaryIdle /\ ReshapeIdle /\ PeerIdle /\ SchemaIdle /\ StatementIdle /\ LookupInit

NextLookup ==
    \/ SendSearch
    \/ RaiseForStatus
    \/ ParseResponse
    \/ CikSetSecClient
    \/ CikFromTicker

SpecLookup == InitLookup /\ [][NextLookup]_vars

\* ================================================================ claims
\* ------------------------------------------- get_latest_10K_item_summary
\* The call took the inference path (item_codes was None on entry).
InferredPath ==
    \/ ~item_codes.some
    \/ (calls # <<>> /\ calls[1].op = "infer_relevant_items")
ExplicitPath == pc # "idle" /\ ~InferredPath

CallsOf(ops) == SelectSeq(calls, LAMBDA c : c.op \in ops)
ArgsOf(ops) == [k \in 1..Len(CallsOf(ops)) |-> CallsOf(ops)[k].arg]
\* the summary headers of a text, in order
Headers(t) == SelectSeq(t, LAMBDA tok : tok.k = "header")
CatalogTitle(code) ==
    AllItemMeta[CHOOSE k \in 1..Len(AllItemMeta) : AllItemMeta[k].code = code].Title

\* C1: an explicit item_codes list with a code outside the catalog makes the call
\* fail with an error naming every such code, and no accessor or language-model
\* call is made, also when valid codes come before the invalid one.
C1_InvalidCodesFailBeforeAnyCall ==
    (ExplicitPath /\ \E k \in 1..Len(item_codes.val) :
                        ~InList(item_codes.val[k], get_tenk_items))
    => /\ calls = <<>>
       /\ pc \in {"start", "raised"}
       /\ result = <<>>
       /\ pc = "raised" =>
            /\ error.type = "ValueError"
            /\ \A k \in 1..Len(item_codes.val) :
                  ~InList(item_codes.val[k], get_tenk_items)
                    => InList(item_codes.val[k], error.invalid_items)

C1_Witness ==
    /\ ExplicitPath
    /\ pc = "raised"
    /\ item_codes.val = <<"ITEM 1A", "ITEM 99">>
    /\ error.invalid_items = <<"ITEM 99">>

\* C2: for a valid, non-empty explicit list, the returned text holds one summary
\* header per element of the list, in the order of the list, each with the
\* element's code and catalog title.
C2_OneBlockPerCodeInOrder ==
    (ExplicitPath /\ pc = "returned" /\ item_codes.val # <<>>)
    => LET h == Headers(result)
       IN  /\ Len(h) = Len(item_codes.val)
           /\ \A k \in 1..Len(h) :
                 h[k] = SummaryHeader(item_codes.val[k], CatalogTitle(item_codes.val[k]))

C2_Witness ==
    /\ ExplicitPath
    /\ pc = "returned"
    /\ item_codes.val = <<"ITEM 7A", "ITEM 1">>
    /\ Len(Headers(result)) = 2

\* C3: on both entry paths, every identifier whose section is fetched from the
\* filing or that is handed to the summarizer is a member of the item catalog
\* (get_tenk_items).
C3_OnlyCatalogItemsReachCollaborators ==
    \A k \in 1..Len(calls) :
        calls[k].op \in {"section_text", "summarize_item_text"}
          => InList(calls[k].arg, get_tenk_items)

\* C4: with item_codes absent the resolver is called exactly once, first, with the
\* user query; when the call returns, the summarizer was called once per element
\* of the resolver's list, in order, and the text has a header for each.
C4_InferredPathCalls ==
    (InferredPath /\ pc # "start")
    => /\ Len(CallsOf({"infer_relevant_items"})) = 1
       /\ calls[1] = Call("infer_relevant_items", user_query, pc # "raised" \/ Len(calls) > 1)
       /\ pc = "returned" =>
            /\ ArgsOf({"summarize_item_text"}) = item_codes.val
            /\ [k \in 1..Len(Headers(result)) |-> Headers(result)[k].code] = item_codes.val

C4_Witness ==
    /\ InferredPath
    /\ pc = "returned"
    /\ item_codes.val = <<"ITEM 1A">>
    /\ Len(CallsOf({"summarize_item_text"})) = 1
    /\ Headers(result) = <<SummaryHeader("ITEM 1A", "Risk Factors")>>

\* C5: a failed accessor or summarizer call ends the call in a raised error with
\* no text returned; a returned text means every identifier of the working set
\* was summarized and no call failed.
C5_NoPartialResult ==
    /\ (\E k \in 1..Len(calls) : ~calls[k].ok) => (pc = "raised" /\ result = <<>>)
    /\ pc = "raised" => (result = <<>> /\ error # NoError)
    /\ pc = "returned" =>
         /\ error = NoError
         /\ ArgsOf({"summarize_item_text"}) = item_codes.val
         /\ Len(Headers(result)) = Len(item_codes.val)

\* the summarizer fails on the second identifier, after one summary was produced
C5_Witness ==
    /\ pc = "raised"
    /\ item_codes.some
    /\ Len(item_codes.val) = 2
    /\ Len(CallsOf({"summarize_item_text"})) = 2
    /\ ~calls[Len(calls)].ok
    /\ Len(Headers(filing_text)) = 1

\* --------------------------------------------------- reshape_financial_df
NRows == Len(df.rows)
NCols == Len(df.columns)
SortedByLabelThenDate ==
    \A k \in 1..(Len(sorted_df) - 1) : KeyLeq(sorted_df[k], sorted_df[k + 1])
UniquePairs ==
    \A a, b \in 1..Len(sorted_df) :
        a # b => ~(/\ sorted_df[a].label = sorted_df[b].label
                   /\ sorted_df[a].fiscal_date = sorted_df[b].fiscal_date)
DistinctLabels ==
    \A a, b \in 1..NRows : a # b => df.rows[a].label # df.rows[b].label
RevenueExample ==
    /\ df.columns = <<"2024-12-31", "2025-03-31">>
    /\ df.has_concept
    /\ df.rows = <<[label |-> "Revenue", concept |-> "us-gaap:Revenue",
                    vals |-> <<100, 120>>]>>

\* C6 as stated: R x P rows, no two with the same (label, fiscal_date), sorted
\* by label and then fiscal_date.
C6_Original ==
    rpc = "done" =>
        /\ Len(sorted_df) = NRows * NCols
        /\ UniquePairs
        /\ SortedByLabelThenDate

\* C6 amended: R x P rows sorted ascending by label and then fiscal_date; no two
\* share a (label, fiscal_date) pair when the R labels are pairwise distinct; the
\* Revenue example gives its two rows in period order.
C6_CountAndOrder ==
    rpc = "done" =>
        /\ Len(sorted_df) = NRows * NCols
        /\ SortedByLabelThenDate
        /\ DistinctLabels => UniquePairs
        /\ RevenueExample =>
             sorted_df = <<[label |-> "Revenue", concept |-> "us-gaap:Revenue",
                            fiscal_date |-> "2024-12-31", amount |-> 100],
                           [label |-> "Revenue", concept |-> "us-gaap:Revenue",
                            fiscal_date |-> "2025-03-31", amount |-> 120]>>

\* two rows of different labels with the later period first in the table
C6_Witness ==
    /\ rpc = "done"
    /\ df.columns = <<"2025-03-31", "2024-12-31">>
    /\ NRows = 2
    /\ df.rows[1].label = "Revenue"
    /\ df.rows[2].label = "Assets"
    /\ Len(sorted_df) = 4

BagOfSeq(seq) == [x \in Range(seq) |-> Cardinality({k \in 1..Len(seq) : seq[k] = x})]
\* the cells of the wide table, row by row
Cells ==
    [k \in 1..(NRows * NCols) |->
       LET r == ((k - 1) \div NCols) + 1
           c == ((k - 1) % NCols) + 1
       IN  IF df.has_concept
           THEN [label |-> df.rows[r].label, concept |-> df.rows[r].concept,
                 fiscal_date |-> df.columns[c], amount |-> df.rows[r].vals[c]]
           ELSE [label |-> df.rows[r].label,
                 fiscal_date |-> df.columns[c], amount |-> df.rows[r].vals[c]]]

\* C7: the output rows are exactly the input cells, each once: every cell gives
\* one row with its label (and concept when present), its column as fiscal_date
\* and its value as amount, also for a column that is no date; nothing is
\* dropped, merged or added.
C7_CellPreserving ==
    rpc = "done" => BagOfSeq(sorted_df) = BagOfSeq(Cells)

\* two rows that agree in label, concept and amounts, and a column that is no date
C7_Witness ==
    /\ rpc = "done"
    /\ NRows = 2
    /\ df.rows[1] = df.rows[2]
    /\ "level" \in Range(df.columns)
    /\ Len(sorted_df) = 2 * NCols

\* ----------------------------------------------------- run_peer_comparison
\* the tickers of a list, each once, in the order of their first occurrence
RECURSIVE FirstOccurrences(_)
FirstOccurrences(ts) ==
    IF ts = <<>> THEN <<>>
    ELSE LET before == FirstOccurrences(SubSeq(ts, 1, Len(ts) - 1))
         IN  IF InList(ts[Len(ts)], before) THEN before ELSE Append(before, ts[Len(ts)])

SectionStarts == SelectSeq([k \in 1..Len(prompt) |-> k], LAMBDA k : prompt[k].k = "section")
\* the lines of the n-th section, without its header
SectionBody(n) ==
    LET from == SectionStarts[n] + 1
        to == IF n < Len(SectionStarts) THEN SectionStarts[n + 1] - 1 ELSE Len(prompt) - 1
    IN  SubSeq(prompt, from, to)
SnapshotOf(t) == data[CHOOSE k \in 1..Len(data) : data[k].key = t].value
IsErrorBody(b, d) == "error" \in DOMAIN d /\ b = <<ErrorLine(d.error)>>
IsDataBody(b, d) ==
    /\ ~("error" \in DOMAIN d)
    /\ [k \in 1..Len(b) |-> b[k].k] = [k \in 1..5 |-> "field"]
    /\ [k \in 1..Len(b) |-> b[k].name] =
         <<"Income Statement", "Balance Sheet", "Stock Price", "Analyst Rating", "Earnings">>
    /\ [k \in 1..Len(b) |-> b[k].value] =
         <<d.income_statement, d.balance_sheet, d.stock_price, d.analyst_rating, d.earnings>>
ErrorCount == Cardinality({k \in 1..Len(data) : "error" \in DOMAIN data[k].value})

\* C8: whatever tickers have an error snapshot, the prompt has one section per
\* ticker, in input order, each holding either the five data fields or the
\* recorded error and never both; the run raises only when the one language-model
\* call fails, and otherwise returns the response to exactly that prompt.
C8_PeerComparisonDegrades ==
    /\ ppc \in {"formatted", "returned", "raised"} =>
         /\ [n \in 1..Len(SectionStarts) |-> prompt[SectionStarts[n]].ticker]
              = FirstOccurrences(tickers)
         /\ \A n \in 1..Len(SectionStarts) :
               LET d == SnapshotOf(prompt[SectionStarts[n]].ticker)
               IN  IsErrorBody(SectionBody(n), d) \/ IsDataBody(SectionBody(n), d)
         /\ prompt[Len(prompt)] = ClosingLine
    /\ ppc = "returned" =>
         /\ Len(llm_calls) = 1
         /\ llm_calls[1] = [prompt |-> prompt, ok |-> TRUE, answer |-> response]
    /\ ppc = "raised" => (Len(llm_calls) = 1 /\ ~llm_calls[1].ok)
    /\ ppc \in {"start", "gathered", "formatted"} => llm_calls = <<>>

\* three tickers, the second with an error marker, compared to the end
C8_Witness ==
    /\ ppc = "returned"
    /\ tickers = <<"MU", "NVDA", "INTC">>
    /\ data[1].value = DataSnapshot
    /\ data[2].value = ErrorSnapshot
    /\ data[3].value = DataSnapshot
    /\ ErrorCount = 1
    /\ Len(SectionStarts) = 3

\* ------------------------------------------------------- the schemas module
\* C9: constructing the FilingItemSummary the schemas module exports with an
\* item_code that is not in the item catalog fails at construction time.
C9_InvalidItemCodeRejected ==
    (/\ spc = "constructed"
     /\ made.name = "FilingItemSummary"
     /\ made.kwargs[1].item_code # "absent"
     /\ ~InList(made.kwargs[1].item_code, get_tenk_items))
    => made.got.outcome = "ValidationError"

\* -------------------------------------------------- get_financial_statement
\* C10: with a statement_type other than cashflow, balance_sheet or income the
\* call makes no side-effecting call (SEC identity, company lookup, filings,
\* XBRL), and when it has raised, it raised ValueError.
C10_ValidationBeforeSideEffects ==
    (fpc # "idle" /\ fargs.statement_type \notin StatementTypes)
    => /\ fcalls = <<>>
       /\ fpc = "raised" => fout.type = "ValueError"

\* ------------------------------------------ get_ticker_given_name, get_cik
\* C11: when the ticker search of get_cik succeeds with at least one equity
\* match, get_cik returns "CIK" followed by the company's CIK number zero-padded
\* to ten digits.
C11_ReturnsPaddedCik ==
    (/\ entry = "get_cik"
     /\ cpc \in {"returned", "raised"}
     /\ tpc = "returned"
     /\ tout.success
     /\ Len(tout.result.val) >= 1)
    => /\ cpc = "returned"
       /\ \E c \in Ciks : cout = [kind |-> "returned", cik_formatted |-> FormatCik(c)]

\* C14: a returned value has the fields success, result and error, with success
\* true exactly when error is null and exactly when result is non-null; a
\* transport failure, an HTTP error status or a content type that is not JSON is
\* returned as success = false and never raised; on success result holds the
\* quotes of type EQUITY, and only those, in response order.
RECURSIVE EquitiesInOrder(_)
EquitiesInOrder(quotes) ==
    IF quotes = <<>> THEN <<>>
    ELSE IF Head(quotes).quoteType = "EQUITY"
         THEN <<[name |-> Head(quotes).shortname, symbol |-> Head(quotes).symbol,
                 exchange |-> Head(quotes).exchange]>> \o EquitiesInOrder(Tail(quotes))
         ELSE EquitiesInOrder(Tail(quotes))
TransportOrContentFailure ==
    \/ res.kind = "failed"
    \/ /\ res.kind = "response"
       /\ (res.status >= 400 \/ ~IsJsonContentType(res.content_type))
SectionAndSummaryCalls == CallsOf({"section_text", "summarize_item_text"})

\* C12: the external calls of one call come in a fixed order: the resolver first
\* (or validation, which calls nothing), then one filing fetch, then for each
\* identifier in list order its section fetch followed by its summarizer call;
\* the filing is fetched once, not once per identifier.
C12_CallOrder ==
    /\ \A k \in 1..Len(calls) : calls[k].op = "infer_relevant_items" => k = 1
    /\ ExplicitPath /\ pc = "start" => calls = <<>>
    /\ Len(CallsOf({"get_latest_filings"})) <= 1
    /\ \A k \in 1..Len(calls) :
          calls[k].op \in {"get_item", "section_text", "summarize_item_text"}
            => \E j \in 1..(k - 1) : calls[j].op = "get_latest_filings"
    /\ \A k \in 1..Len(SectionAndSummaryCalls) :
          /\ SectionAndSummaryCalls[k].op =
               (IF k % 2 = 1 THEN "section_text" ELSE "summarize_item_text")
          /\ SectionAndSummaryCalls[k].arg = item_codes.val[(k + 1) \div 2]
    /\ pc = "returned" =>
          /\ Len(CallsOf({"get_latest_filings"})) = 1
          /\ Len(SectionAndSummaryCalls) = 2 * Len(item_codes.val)

\* two identifiers summarized to the end
C12_Witness ==
    /\ pc = "returned"
    /\ item_codes.val = <<"ITEM 7A", "ITEM 1A">>
    /\ Len(SectionAndSummaryCalls) = 4
    /\ Len(CallsOf({"get_latest_filings"})) = 1

\* C13: with an empty working set (an explicit empty list, or a resolver that
\* returns nothing) the filing is still fetched, the summarizer is never called,
\* and the returned text is the filing line alone: no summary block, no leading
\* or trailing whitespace.
C13_EmptyWorkingSet ==
    (item_codes.some /\ item_codes.val = <<>>)
    => /\ CallsOf({"get_item", "section_text", "summarize_item_text"}) = <<>>
       /\ pc = "returned" =>
            /\ Len(CallsOf({"get_latest_filings"})) = 1
            /\ \E d \in FilingDates : result = <<FilingLine(d)>>

\* the resolver returned no identifier and the call returned
C13_Witness ==
    /\ pc = "returned"
    /\ InferredPath
    /\ item_codes = Some(<<>>)
    /\ Len(result) = 1

====
